---- MODULE Spec2Model ----
(***************************************************************************)
(* The on-disk result cache of src/main.py: CacheManager (fingerprint by   *)
(* modification time, validity check, load, save, clear) and the           *)
(* LoadData.load_data run that uses it.                                    *)
(*                                                                         *)
(* Files are sequences of tokens.  A write opens the file (which truncates *)
(* it), then dumps the serialised value; a dump that raises leaves a       *)
(* proper prefix behind.  A dataset read from a source file is identified  *)
(* by the modification time the file had when it was read.                 *)
(***************************************************************************)
EXTENDS Integers, Sequences, FiniteSets, TLC

\* Largest modification time of a source file in the model.
MaxMtime == 2

\* Python's None: the value compute_mtimes records when stat fails, and the
\* value of a dataset that was not loaded.  Real modification times are 1..
None == 0

\* What json.dump writes for None.
JsonNull == -1

Mtimes == 1..MaxMtime

\* Most tokens a dump that raises has already written to the file.
MaxPartial == 1

\* The logical source names of the model, in the order gather_source_paths
\* inserts them: one single-file CSV dataset and one year-keyed dataset.
KeyOrder == <<"countries", "aviation_2010">>

Names == {KeyOrder[i] : i \in 1..Len(KeyOrder)}

\* The path a logical name is configured to (path.py).
PathOf(name) ==
    IF name = "countries" THEN "datarush/countries.csv" ELSE "aviation/2010.xlsx"

Paths == {PathOf(n) : n \in Names}

\* The environment variable path.py builds the path of a name from.
EnvVarOf(name) ==
    IF name = "countries" THEN "DATARUSH_PATH" ELSE "DB_AVIATION"

EnvVars == {EnvVarOf(n) : n \in Names}

\* Values of the FORCE_RELOAD environment variable ("" is the default that
\* os.environ.get returns when the variable is unset).
EnvValues == {"", "1", "true"}

\* A source file as os.path.getmtime and os.path.exists see it.
Missing == [st |-> "missing", mtime |-> None]
Denied  == [st |-> "denied", mtime |-> None]
FileAt(t) == [st |-> "file", mtime |-> t]

VARIABLES
    environ,      \* os.environ["FORCE_RELOAD"]
    fs,           \* source files: path -> Missing | Denied | FileAt(t)
    cache_file,   \* __cache__/data_cache.pkl
    meta_file,    \* __cache__/data_cache_meta.json
    save,         \* the save_cache call in progress
    call,         \* the last completed CacheManager call and what it returned
    meta_payload, \* history: the payload of the save_cache that wrote meta_file
    hist,         \* whether save_cache remembers the files it found (history)
    ld,           \* the load_data run in progress
    dotenv,       \* the variables load_dotenv and the environment define
    globals,      \* main.py's globals: the import of path.py and its names
    pool          \* the _load_excels_parallel call in progress

vars ==
    <<environ, fs, cache_file, meta_file, save, call, meta_payload, hist, ld,
      dotenv, globals, pool>>

----------------------------------------------------------------------------
\* Files: whether the path exists, and its content as a sequence of tokens.

AbsentFile == [exists |-> FALSE, data |-> <<>>]

FileWith(s) == [exists |-> TRUE, data |-> s]

\* The proper prefixes of a token sequence, up to MaxPartial tokens: what a
\* dump that raises part-way can leave in the file.
ProperPrefixes(s) ==
    {SubSeq(s, 1, k) : k \in {j \in 0..MaxPartial : j < Len(s)}}

----------------------------------------------------------------------------
\* Payloads

\* The keys of the payload dict, in the order load_data builds it.
PayloadKeys == <<"countries_df", "aviation_data">>

\* aviation_data: a dict from aviation_* names to datasets.
AviationNames == {n \in Names : n # "countries"}

EmptyDict == [n \in {} |-> None]

AviationDicts == UNION {[D -> Mtimes] : D \in SUBSET AviationNames}

MkPayload(c, a) == [countries_df |-> c, aviation_data |-> a]

Payloads == {MkPayload(c, a) : c \in Mtimes \cup {None}, a \in AviationDicts}

NoPayload == MkPayload(None, EmptyDict)

\* The payloads handed to save_cache when it is called directly.
Bundles ==
    {MkPayload(c, a) : c \in {None, 1},
                       a \in {EmptyDict, [n \in AviationNames |-> 1]}}

\* pickle.dump(payload, f): a protocol header, one frame per dict item, STOP.
Pickle(p) ==
    << <<"PROTO">> >>
    \o [i \in 1..Len(PayloadKeys) |-> <<PayloadKeys[i], p[PayloadKeys[i]]>>]
    \o << <<"STOP">> >>

\* Whether pickle.load(f) returns: the stream is whole.
CanUnpickle(s) ==
    /\ Len(s) >= 2
    /\ s[1][1] = "PROTO"
    /\ s[Len(s)][1] = "STOP"

\* pickle.load(f) of a whole stream: the dict rebuilt from its item frames.
Unpickle(s) ==
    LET items == SubSeq(s, 2, Len(s) - 1)
        keys == {items[i][1] : i \in 1..Len(items)}
    IN [k \in keys |-> items[CHOOSE i \in 1..Len(items) : items[i][1] = k][2]]

----------------------------------------------------------------------------
\* Fingerprints

\* The source maps gather_source_paths can return: one entry per configured
\* name, each mapped to its path.
SourceMaps == {[n \in D |-> PathOf(n)] : D \in SUBSET Names}

\* The keys of a dict in insertion order.
Keys(d) == SelectSeq(KeyOrder, LAMBDA n : n \in DOMAIN d)

\* os.path.getmtime(path): the time, or the exception stat raises.
getmtime(path) ==
    IF fs[path].st = "file" THEN [exc |-> "none", val |-> fs[path].mtime]
    ELSE IF fs[path].st = "missing"
         THEN [exc |-> "FileNotFoundError", val |-> None]
         ELSE [exc |-> "PermissionError", val |-> None]

\* A faulty variant: the handler catches FileNotFoundError only.
CaughtMissingOnly(exc) == exc = "FileNotFoundError"

\* except Exception: the exceptions the handler of compute_mtimes catches.
Caught(exc) == exc \in {"FileNotFoundError", "PermissionError"}

\* One pass of the loop body: the value stored under the key, or the
\* exception that leaves the loop.
mtime_entry(path) ==
    LET r == getmtime(path)
    IN IF r.exc = "none" THEN [raised |-> FALSE, val |-> r.val]
       ELSE IF Caught(r.exc) THEN [raised |-> FALSE, val |-> None]
       ELSE [raised |-> TRUE, val |-> None]

\* A faulty variant: the fingerprint records only whether each file exists.
compute_mtimes_ExistenceOnly(source_paths) ==
    [key \in DOMAIN source_paths |->
        IF fs[source_paths[key]].st = "file" THEN 1 ELSE None]

compute_mtimes_raises(source_paths) ==
    \E key \in DOMAIN source_paths : mtime_entry(source_paths[key]).raised

compute_mtimes(source_paths) ==
    [key \in DOMAIN source_paths |-> mtime_entry(source_paths[key]).val]

\* json.dump(meta, f, indent=2): "{", one item per key, "}".
JsonValue(v) == IF v = None THEN JsonNull ELSE v

JsonDump(meta) ==
    LET keys == Keys(meta)
    IN << <<"{">> >>
       \o [i \in 1..Len(keys) |-> <<keys[i], JsonValue(meta[keys[i]])>>]
       \o << <<"}">> >>

\* Whether json.load(f) returns: the text is a whole object.
CanJsonLoad(s) ==
    /\ Len(s) >= 2
    /\ s[1][1] = "{"
    /\ s[Len(s)][1] = "}"

\* A faulty variant: null is not turned back into None.
PyValueKeepsNull(j) == j

\* What json.load returns for a JSON value.
PyValue(j) == IF j = JsonNull THEN None ELSE j

JsonLoad(s) ==
    LET items == SubSeq(s, 2, Len(s) - 1)
        keys == {items[i][1] : i \in 1..Len(items)}
    IN [k \in keys |->
          PyValue(items[CHOOSE i \in 1..Len(items) : items[i][1] = k][2])]

----------------------------------------------------------------------------
\* CacheManager: the read-only operations

\* A faulty variant: the override is not consulted.
is_cache_valid_NoOverride(current_meta) ==
    IF ~cache_file.exists \/ ~meta_file.exists THEN FALSE
    ELSE IF ~CanJsonLoad(meta_file.data) THEN FALSE
    ELSE JsonLoad(meta_file.data) = current_meta

\* A faulty variant: only the keys of current_meta are compared.
is_cache_valid_CurrentKeysOnly(current_meta) ==
    IF environ = "1" THEN FALSE
    ELSE IF ~cache_file.exists \/ ~meta_file.exists THEN FALSE
    ELSE IF ~CanJsonLoad(meta_file.data) THEN FALSE
    ELSE LET saved_meta == JsonLoad(meta_file.data)
         IN \A k \in DOMAIN current_meta :
               k \in DOMAIN saved_meta /\ saved_meta[k] = current_meta[k]

is_cache_valid(current_meta) ==
    IF environ = "1" THEN FALSE
    ELSE IF ~cache_file.exists \/ ~meta_file.exists THEN FALSE
    ELSE IF ~CanJsonLoad(meta_file.data) THEN FALSE
    ELSE JsonLoad(meta_file.data) = current_meta

\* load_cache(): the payload, or an exception (FileNotFoundError, EOFError,
\* UnpicklingError) when the file is absent or not a whole pickle.
load_cache ==
    IF cache_file.exists /\ CanUnpickle(cache_file.data)
    THEN [raised |-> FALSE, payload |-> Unpickle(cache_file.data)]
    ELSE [raised |-> TRUE, payload |-> NoPayload]

----------------------------------------------------------------------------
\* Records of the calls

NoCall ==
    [op |-> "none", ok |-> TRUE, valid |-> FALSE, meta |-> EmptyDict,
     sources |-> EmptyDict, payload |-> NoPayload,
     pre_cache |-> AbsentFile, pre_meta |-> AbsentFile]

SaveIdle ==
    [pc |-> "idle", payload |-> NoPayload, sources |-> EmptyDict,
     meta |-> EmptyDict, pre_cache |-> AbsentFile, pre_meta |-> AbsentFile]

\* A LoadData object as __init__ leaves it, with no load_data run started.
\* failed_load, trace, rerun and first are history: whether load_cache raised
\* in the run, the sections of load_data the run has entered, whether the
\* run started right after a run that saved without error, and the datasets
\* of that run.
LdIdle ==
    [pc |-> "idle", current_meta |-> EmptyDict, countries_df |-> None,
     aviation_data |-> EmptyDict, pending |-> {}, results |-> EmptyDict,
     failed_load |-> FALSE, trace |-> {}, outcome |-> "none",
     rerun |-> FALSE, first |-> NoPayload]

\* What a save_cache call leaves in `call`: its arguments when it returns
\* (ok), the files it had found when it raises.
SaveOutcome(ok) ==
    IF ok
    THEN [NoCall EXCEPT !.op = "save_cache", !.payload = save.payload,
                        !.sources = save.sources]
    ELSE [NoCall EXCEPT !.op = "save_cache", !.ok = FALSE,
                        !.pre_cache = save.pre_cache,
                        !.pre_meta = save.pre_meta]

----------------------------------------------------------------------------
\* CacheManager.save_cache, one action per step that touches a file

\* Entry: the arguments are bound; the files as they are now are remembered
\* (history only).
SaveBegin(payload, source_paths) ==
    /\ save.pc = "idle"
    /\ save' = [pc |-> "open_cache", payload |-> payload,
                sources |-> source_paths, meta |-> EmptyDict,
                pre_cache |-> IF hist THEN cache_file ELSE AbsentFile,
                pre_meta |-> IF hist THEN meta_file ELSE AbsentFile]
    /\ call' = NoCall

\* open(self.cache_file, "wb"): creates or truncates the file.
SaveOpenCache ==
    /\ save.pc = "open_cache"
    /\ cache_file' = FileWith(<<>>)
    /\ save' = [save EXCEPT !.pc = "dump_cache"]
    /\ UNCHANGED <<environ, fs, meta_file, call, meta_payload, hist, ld, dotenv, globals, pool>>

\* open raises (the directory or the file is not writable): nothing written.
SaveOpenCacheRaises ==
    /\ save.pc = "open_cache"
    /\ save' = SaveIdle
    /\ call' = SaveOutcome(FALSE)
    /\ UNCHANGED <<environ, fs, cache_file, meta_file, meta_payload, hist, ld, dotenv, globals, pool>>

\* pickle.dump(payload, f) and the close of the with block.
SaveDumpCache ==
    /\ save.pc = "dump_cache"
    /\ cache_file' = FileWith(Pickle(save.payload))
    /\ save' = [save EXCEPT !.pc = "compute_mtimes"]
    /\ UNCHANGED <<environ, fs, meta_file, call, meta_payload, hist, ld, dotenv, globals, pool>>

\* pickle.dump or the flush raises (unpicklable member, disk full): the file
\* keeps what was written so far.
SaveDumpCacheRaises ==
    /\ save.pc = "dump_cache"
    /\ \E part \in ProperPrefixes(Pickle(save.payload)) :
          cache_file' = FileWith(part)
    /\ save' = SaveIdle
    /\ call' = SaveOutcome(FALSE)
    /\ UNCHANGED <<environ, fs, meta_file, meta_payload, hist, ld, dotenv, globals, pool>>

\* meta = self.compute_mtimes(source_paths)
SaveComputeMtimes ==
    /\ save.pc = "compute_mtimes"
    /\ save' = [save EXCEPT !.pc = "open_meta",
                            !.meta = compute_mtimes(save.sources)]
    /\ UNCHANGED <<environ, fs, cache_file, meta_file, call, meta_payload, hist, ld, dotenv, globals, pool>>

\* open(self.meta_file, "w", encoding="utf-8")
SaveOpenMeta ==
    /\ save.pc = "open_meta"
    /\ meta_file' = FileWith(<<>>)
    /\ save' = [save EXCEPT !.pc = "dump_meta"]
    /\ UNCHANGED <<environ, fs, cache_file, call, meta_payload, hist, ld, dotenv, globals, pool>>

SaveOpenMetaRaises ==
    /\ save.pc = "open_meta"
    /\ save' = SaveIdle
    /\ call' = SaveOutcome(FALSE)
    /\ UNCHANGED <<environ, fs, cache_file, meta_file, meta_payload, hist, ld, dotenv, globals, pool>>

\* json.dump(meta, f, indent=2), the close, and the return of save_cache.
SaveDumpMeta ==
    /\ save.pc = "dump_meta"
    /\ meta_file' = FileWith(JsonDump(save.meta))
    /\ meta_payload' = IF hist THEN save.payload ELSE meta_payload
    /\ save' = SaveIdle
    /\ call' = SaveOutcome(TRUE)
    /\ UNCHANGED <<environ, fs, cache_file, hist, ld, dotenv, globals, pool>>

SaveDumpMetaRaises ==
    /\ save.pc = "dump_meta"
    /\ \E part \in ProperPrefixes(JsonDump(save.meta)) :
          meta_file' = FileWith(part)
    /\ save' = SaveIdle
    /\ call' = SaveOutcome(FALSE)
    /\ UNCHANGED <<environ, fs, cache_file, meta_payload, hist, ld, dotenv, globals, pool>>

SaveStep ==
    \/ SaveOpenCache
    \/ SaveOpenCacheRaises
    \/ SaveDumpCache
    \/ SaveDumpCacheRaises
    \/ SaveComputeMtimes
    \/ SaveOpenMeta
    \/ SaveOpenMetaRaises
    \/ SaveDumpMeta
    \/ SaveDumpMetaRaises

----------------------------------------------------------------------------
\* CacheManager called directly

\* save_cache(payload, source_paths)
SaveCacheCall ==
    /\ \E payload \in Bundles, source_paths \in SourceMaps :
          SaveBegin(payload, source_paths)
    /\ UNCHANGED <<environ, fs, cache_file, meta_file, meta_payload, hist, ld, dotenv, globals, pool>>

\* Path.unlink(): removes the file; FileNotFoundError when there is none.
unlink(f) ==
    IF f.exists THEN [raised |-> FALSE, file |-> AbsentFile]
    ELSE [raised |-> TRUE, file |-> f]

\* A faulty variant: the files are unlinked without the exists() tests.
clear_cache_NoExistsTest ==
    LET c == unlink(cache_file)
        m == IF c.raised THEN [raised |-> TRUE, file |-> meta_file]
             ELSE unlink(meta_file)
    IN [raised |-> m.raised, cache |-> c.file, meta |-> m.file]

\* clear_cache(): unlink each file that exists.  The result is whether the
\* call raised and the two files as it leaves them.
clear_cache ==
    LET c == IF cache_file.exists THEN unlink(cache_file)
             ELSE [raised |-> FALSE, file |-> cache_file]
        m == IF c.raised THEN [raised |-> TRUE, file |-> meta_file]
             ELSE IF meta_file.exists THEN unlink(meta_file)
             ELSE [raised |-> FALSE, file |-> meta_file]
    IN [raised |-> m.raised, cache |-> c.file, meta |-> m.file]

\* Whether a file existed, without its content (history kept in `call`).
Presence(f) == IF f.exists THEN FileWith(<<>>) ELSE AbsentFile

ClearCacheCall ==
    /\ save.pc = "idle"
    /\ cache_file' = clear_cache.cache
    /\ meta_file' = clear_cache.meta
    /\ call' = [NoCall EXCEPT !.op = "clear_cache",
                              !.ok = ~clear_cache.raised,
                              !.pre_cache = Presence(cache_file),
                              !.pre_meta = Presence(meta_file)]
    /\ UNCHANGED <<environ, fs, save, meta_payload, hist, ld, dotenv, globals, pool>>

\* compute_mtimes(source_paths)
ComputeMtimesCall ==
    /\ \E source_paths \in SourceMaps :
          call' = [NoCall EXCEPT !.op = "compute_mtimes",
                                 !.ok = ~compute_mtimes_raises(source_paths),
                                 !.sources = source_paths,
                                 !.meta = compute_mtimes(source_paths)]
    /\ UNCHANGED <<environ, fs, cache_file, meta_file, save, meta_payload, hist, ld, dotenv, globals, pool>>

\* A faulty variant: a check that finds the cache unusable removes its files.
IsCacheValidCall_RemovesStale ==
    /\ \E source_paths \in SourceMaps :
          LET current_meta == compute_mtimes(source_paths)
              valid == is_cache_valid(current_meta)
          IN /\ call' = [NoCall EXCEPT !.op = "is_cache_valid",
                                       !.sources = source_paths,
                                       !.meta = current_meta,
                                       !.valid = valid]
             /\ cache_file' = IF valid THEN cache_file ELSE AbsentFile
             /\ meta_file' = IF valid THEN meta_file ELSE AbsentFile
    /\ UNCHANGED <<environ, fs, save, meta_payload, hist, ld, dotenv, globals, pool>>

\* is_cache_valid(compute_mtimes(source_paths)); may run while a save_cache is
\* in progress.
IsCacheValidCall ==
    /\ \E source_paths \in SourceMaps :
          LET current_meta == compute_mtimes(source_paths)
          IN call' = [NoCall EXCEPT !.op = "is_cache_valid",
                                    !.sources = source_paths,
                                    !.meta = current_meta,
                                    !.valid = is_cache_valid(current_meta)]
    /\ UNCHANGED <<environ, fs, cache_file, meta_file, save, meta_payload, hist, ld, dotenv, globals, pool>>

\* load_cache(); may run while a save_cache is in progress.
LoadCacheCall ==
    /\ call' = [NoCall EXCEPT !.op = "load_cache",
                              !.ok = ~load_cache.raised,
                              !.payload = load_cache.payload]
    /\ UNCHANGED <<environ, fs, cache_file, meta_file, save, meta_payload, hist, ld, dotenv, globals, pool>>

----------------------------------------------------------------------------
\* LoadData.load_data, one action per step that reads or writes a file

\* main.py's globals before `from path import *` has run, after it has run,
\* and after it has raised.
NotImported == [import |-> "pending", names |-> {}]
Imported == [import |-> "done", names |-> Names]
ImportFailed == [import |-> "TypeError", names |-> {}]

\* os.path.join(dir, "..", os.getenv(var), file) raises TypeError when
\* os.getenv returns None.
path_join_raises(var) == var \notin dotenv

\* from path import *: path.py computes every path at import, so the import
\* raises as soon as one variable is unset, and no name is defined.
ImportPath ==
    /\ globals.import = "pending"
    /\ globals' = IF \E n \in Names : path_join_raises(EnvVarOf(n))
                  THEN ImportFailed
                  ELSE Imported
    /\ UNCHANGED <<environ, fs, cache_file, meta_file, save, call,
                   meta_payload, hist, ld, dotenv, pool>>

\* gather_source_paths(): every name main.py's globals hold, mapped to its
\* path.
gather_source_paths == [n \in {m \in Names : m \in globals.names} |-> PathOf(n)]

\* gather_source_paths() called directly.
GatherSourcePathsCall ==
    /\ globals.import = "done"
    /\ call' = [NoCall EXCEPT !.op = "gather_source_paths",
                              !.sources = gather_source_paths]
    /\ UNCHANGED <<environ, fs, cache_file, meta_file, save, meta_payload,
                   hist, ld, dotenv, globals, pool>>

\* os.path.exists(path)
path_exists(path) == fs[path].st = "file"

\* pd.read_csv / pd.read_excel of a file that is there: the dataset.
read_dataset(path) == fs[path].mtime

\* A faulty variant: the handler around load_cache catches nothing.
LoadFailureCaught_Nothing == FALSE

\* except Exception around load_cache and _load_from_cache_payload: whether
\* the exception load_cache raises is caught.
LoadFailureCaught == TRUE

\* A faulty variant: the handler around save_cache catches nothing.
SaveFailureCaught_Nothing == FALSE

\* except Exception around the payload and save_cache: whether the exception
\* save_cache raises is caught.
SaveFailureCaught == TRUE

Enter(section) == ld.trace \cup {section}

\* dict.get(key, default)
get(d, key, default) == IF key \in DOMAIN d THEN d[key] ELSE default

\* A faulty variant: aviation_data is looked up under a key the payload does
\* not have.
load_from_cache_payload_WrongKey(payload) ==
    [countries_df |-> get(payload, "countries_df", None),
     aviation_data |-> get(payload, "aviation", EmptyDict)]

\* _load_from_cache_payload(payload): the members it assigns.
load_from_cache_payload(payload) ==
    [countries_df |-> get(payload, "countries_df", None),
     aviation_data |-> get(payload, "aviation_data", EmptyDict)]

\* Whether the run that has just returned loaded from the sources and saved
\* without error, no source file having changed since its save_cache
\* returned.
SavedJustNow ==
    /\ ld.pc = "done"
    /\ ld.outcome = "returned"
    /\ "save" \in ld.trace
    /\ call.op = "save_cache"
    /\ call.ok

\* source_paths = gather_source_paths(); current_meta = compute_mtimes(...)
LdStart ==
    /\ ld.pc \in {"idle", "done"}
    /\ save.pc = "idle"
    /\ ld' = [LdIdle EXCEPT !.pc = "check",
                            !.current_meta = compute_mtimes(gather_source_paths),
                            !.rerun = SavedJustNow,
                            !.first = IF SavedJustNow
                                      THEN MkPayload(ld.countries_df,
                                                     ld.aviation_data)
                                      ELSE NoPayload]
    /\ call' = NoCall
    /\ UNCHANGED <<environ, fs, cache_file, meta_file, save, meta_payload, hist, dotenv, globals, pool>>

\* if self.cache_manager.is_cache_valid(current_meta):
LdCheck ==
    /\ ld.pc = "check"
    /\ ld' = [ld EXCEPT !.pc = IF is_cache_valid(ld.current_meta)
                                THEN "load_cache" ELSE "load_countries",
                        !.current_meta = EmptyDict]
    /\ UNCHANGED <<environ, fs, cache_file, meta_file, save, call, meta_payload, hist, dotenv, globals, pool>>

\* try: payload = load_cache(); _load_from_cache_payload(payload); return
\* except Exception: print, and fall through to the sources.
LdLoadCache ==
    /\ ld.pc = "load_cache"
    /\ LET r == load_cache
       IN IF ~r.raised
          THEN ld' = [ld EXCEPT !.pc = "done", !.outcome = "returned",
                                !.trace = Enter("cache"),
                                !.countries_df =
                                    load_from_cache_payload(r.payload).countries_df,
                                !.aviation_data =
                                    load_from_cache_payload(r.payload).aviation_data]
          ELSE IF LoadFailureCaught
          THEN ld' = [ld EXCEPT !.pc = "load_countries",
                                !.failed_load = TRUE]
          ELSE ld' = [ld EXCEPT !.pc = "done", !.outcome = "CacheCorrupt",
                                !.failed_load = TRUE]
    /\ UNCHANGED <<environ, fs, cache_file, meta_file, save, call, meta_payload, hist, dotenv, globals, pool>>

\* countries: read the CSV when the path is configured and exists, else
\* leave countries_df as None.
LdLoadCountries ==
    /\ ld.pc = "load_countries"
    /\ LET there == /\ "countries" \in DOMAIN gather_source_paths
                    /\ path_exists(gather_source_paths["countries"])
       IN ld' = [ld EXCEPT !.pc = "filter_aviation",
                           !.trace = Enter("countries"),
                           !.countries_df =
                               IF there
                               THEN read_dataset(gather_source_paths["countries"])
                               ELSE ld.countries_df]
    /\ UNCHANGED <<environ, fs, cache_file, meta_file, save, call, meta_payload, hist, dotenv, globals, pool>>

\* A faulty variant: load_data catches the exception of pd.read_csv, leaves
\* countries_df as None and carries on.
LdLoadCountriesRaises_Swallowed ==
    /\ ld.pc = "load_countries"
    /\ "countries" \in DOMAIN gather_source_paths
    /\ path_exists(gather_source_paths["countries"])
    /\ ld' = [ld EXCEPT !.pc = "filter_aviation", !.outcome = "ParseError",
                        !.trace = Enter("countries")]
    /\ UNCHANGED <<environ, fs, cache_file, meta_file, save, call,
                   meta_payload, hist, dotenv, globals, pool>>

\* pd.read_csv raises (the file does not parse): load_data does not catch it.
LdLoadCountriesRaises ==
    /\ ld.pc = "load_countries"
    /\ "countries" \in DOMAIN gather_source_paths
    /\ path_exists(gather_source_paths["countries"])
    /\ ld' = [ld EXCEPT !.pc = "done", !.outcome = "ParseError",
                        !.trace = Enter("countries")]
    /\ UNCHANGED <<environ, fs, cache_file, meta_file, save, call, meta_payload, hist, dotenv, globals, pool>>

\* aviation_paths: the aviation_* entries whose file exists.
LdFilterAviation ==
    /\ ld.pc = "filter_aviation"
    /\ LET aviation_paths ==
              {k \in AviationNames \cap DOMAIN gather_source_paths :
                  path_exists(gather_source_paths[k])}
       IN ld' = [ld EXCEPT !.pc = IF aviation_paths # {}
                                   THEN "load_aviation" ELSE "build",
                           !.trace = Enter("aviation"),
                           !.pending = aviation_paths]
    /\ UNCHANGED <<environ, fs, cache_file, meta_file, save, call, meta_payload, hist, dotenv, globals, pool>>

\* _load_excels_parallel: one worker task reads its file and its result is
\* merged into results.
LdAviationTask ==
    /\ ld.pc = "load_aviation"
    /\ \E k \in ld.pending :
          /\ path_exists(gather_source_paths[k])
          /\ ld' = [ld EXCEPT
                       !.pending = ld.pending \ {k},
                       !.results =
                           [n \in DOMAIN ld.results \cup {k} |->
                               IF n = k
                               THEN read_dataset(gather_source_paths[k])
                               ELSE ld.results[n]]]
    /\ UNCHANGED <<environ, fs, cache_file, meta_file, save, call, meta_payload, hist, dotenv, globals, pool>>

\* A worker task raises (the file went away, or does not parse);
\* future.result() re-raises and load_data does not catch it.
LdAviationTaskRaises ==
    /\ ld.pc = "load_aviation"
    /\ \E k \in ld.pending :
          ld' = [ld EXCEPT !.pc = "done",
                           !.outcome = IF path_exists(gather_source_paths[k])
                                       THEN "ParseError"
                                       ELSE "SourceUnavailable"]
    /\ UNCHANGED <<environ, fs, cache_file, meta_file, save, call, meta_payload, hist, dotenv, globals, pool>>

\* Every future has been collected: self.aviation_data = results.
LdAviationJoin ==
    /\ ld.pc = "load_aviation"
    /\ ld.pending = {}
    /\ ld' = [ld EXCEPT !.pc = "build", !.aviation_data = ld.results,
                        !.results = EmptyDict]
    /\ UNCHANGED <<environ, fs, cache_file, meta_file, save, call, meta_payload, hist, dotenv, globals, pool>>

\* try: payload = {...}; self.cache_manager.save_cache(payload, source_paths)
LdSave ==
    /\ ld.pc = "build"
    /\ SaveBegin(MkPayload(ld.countries_df, ld.aviation_data),
                 gather_source_paths)
    /\ ld' = [ld EXCEPT !.pc = "saving", !.trace = Enter("save")]
    /\ UNCHANGED <<environ, fs, cache_file, meta_file, meta_payload, hist, dotenv, globals, pool>>

\* save_cache has returned, or raised and the handler printed the warning:
\* load_data returns.  An exception the handler does not catch leaves
\* load_data.
LdSaveReturn ==
    /\ ld.pc = "saving"
    /\ save.pc = "idle"
    /\ LET raised == call.op = "save_cache" /\ ~call.ok
       IN ld' = [ld EXCEPT !.pc = "done",
                           !.outcome = IF raised /\ ~SaveFailureCaught
                                       THEN "CacheWriteFailed"
                                       ELSE "returned"]
    /\ UNCHANGED <<environ, fs, cache_file, meta_file, save, call, meta_payload, hist, dotenv, globals, pool>>

----------------------------------------------------------------------------
\* LoadData._load_excels_parallel called on its own, one action per task
\* completion and per pass of the as_completed loop

\* The keys a data_dict may hold, in the order their entries are inserted.
ExcelKeyOrder == <<"aviation_2010", "aviation_2011", "aviation_2012">>

ExcelKeys == {ExcelKeyOrder[i] : i \in 1..Len(ExcelKeyOrder)}

ExcelPathOf(key) ==
    IF key = "aviation_2010" THEN "aviation/2010.xlsx"
    ELSE IF key = "aviation_2011" THEN "aviation/2011.xlsx"
    ELSE "aviation/2012.xlsx"

ExcelPaths == {ExcelPathOf(k) : k \in ExcelKeys}

\* The arguments of the call: the entries of the source map whose file
\* exists, as load_data filters them.
DataDicts == {[k \in D |-> ExcelPathOf(k)] : D \in SUBSET ExcelKeys}

\* The keys of a data_dict in the order the futures are submitted.
Submitted(data_dict) ==
    SelectSeq(ExcelKeyOrder, LAMBDA k : k \in DOMAIN data_dict)

\* No call in progress.  running: the tasks submitted and not finished;
\* finished: the return value of each finished task whose future the loop
\* has not taken yet; order (history): the keys in the order their tasks
\* finished.
PoolIdle ==
    [pc |-> "idle", data_dict |-> EmptyDict, running |-> {},
     finished |-> EmptyDict, results |-> EmptyDict, order |-> <<>>]

\* load_excel(key, path): the pair the task returns.
load_excel(key, path) == [key |-> key, df |-> read_dataset(path), exc |-> FALSE]

\* A faulty variant: the result is stored under the next key in submission
\* order, as if the futures finished in the order they were submitted.
setitem_InSubmissionOrder(results, key, df) ==
    LET next == Submitted(pool.data_dict)[Cardinality(DOMAIN results) + 1]
    IN [n \in DOMAIN results \cup {next} |->
           IF n = next THEN df ELSE results[n]]

\* results[key] = df
setitem(results, key, df) ==
    [n \in DOMAIN results \cup {key} |-> IF n = key THEN df ELSE results[n]]

\* results = {}; futures = [executor.submit(...) for key, path in items]
ParCall ==
    /\ pool.pc \in {"idle", "returned", "raised"}
    /\ \E data_dict \in DataDicts :
          pool' = [PoolIdle EXCEPT !.pc = "running",
                                   !.data_dict = data_dict,
                                   !.running = DOMAIN data_dict]
    /\ UNCHANGED <<environ, fs, cache_file, meta_file, save, call,
                   meta_payload, hist, ld, dotenv, globals>>

\* A worker task reads its file and returns.
ParTaskDone ==
    /\ pool.pc = "running"
    /\ \E k \in pool.running :
          /\ path_exists(pool.data_dict[k])
          /\ pool' = [pool EXCEPT
                         !.running = pool.running \ {k},
                         !.finished =
                             [n \in DOMAIN pool.finished \cup {k} |->
                                 IF n = k
                                 THEN load_excel(k, pool.data_dict[k])
                                 ELSE pool.finished[n]],
                         !.order = Append(pool.order, k)]
    /\ UNCHANGED <<environ, fs, cache_file, meta_file, save, call,
                   meta_payload, hist, ld, dotenv, globals>>

\* pd.read_excel raises in a worker task (the file is gone or does not
\* parse): the future holds the exception.
ParTaskRaises ==
    /\ pool.pc = "running"
    /\ \E k \in pool.running :
          pool' = [pool EXCEPT
                      !.running = pool.running \ {k},
                      !.finished =
                          [n \in DOMAIN pool.finished \cup {k} |->
                              IF n = k
                              THEN [key |-> k, df |-> None, exc |-> TRUE]
                              ELSE pool.finished[n]],
                      !.order = Append(pool.order, k)]
    /\ UNCHANGED <<environ, fs, cache_file, meta_file, save, call,
                   meta_payload, hist, ld, dotenv, globals>>

\* One pass of the loop: as_completed yields a finished future, and
\* key, df = future.result(); results[key] = df
ParCollect ==
    /\ pool.pc = "running"
    /\ \E k \in DOMAIN pool.finished :
          LET r == pool.finished[k]
          IN /\ ~r.exc
             /\ pool' = [pool EXCEPT
                            !.finished = [n \in DOMAIN pool.finished \ {k} |->
                                             pool.finished[n]],
                            !.results = setitem(pool.results, r.key, r.df)]
    /\ UNCHANGED <<environ, fs, cache_file, meta_file, save, call,
                   meta_payload, hist, ld, dotenv, globals>>

\* future.result() re-raises the exception of the task: the with block
\* waits for the other tasks and the exception leaves the function.
ParCollectRaises ==
    /\ pool.pc = "running"
    /\ \E k \in DOMAIN pool.finished : pool.finished[k].exc
    /\ pool' = [pool EXCEPT !.pc = "raised", !.running = {},
                            !.finished = EmptyDict, !.results = EmptyDict]
    /\ UNCHANGED <<environ, fs, cache_file, meta_file, save, call,
                   meta_payload, hist, ld, dotenv, globals>>

\* as_completed is exhausted: return results
ParReturn ==
    /\ pool.pc = "running"
    /\ pool.running = {}
    /\ DOMAIN pool.finished = {}
    /\ pool' = [pool EXCEPT !.pc = "returned"]
    /\ UNCHANGED <<environ, fs, cache_file, meta_file, save, call,
                   meta_payload, hist, ld, dotenv, globals>>

----------------------------------------------------------------------------
\* The environment, between calls

FileStates == {Missing} \cup {FileAt(t) : t \in Mtimes}

\* A source file becomes unreadable to stat, or readable again.
PermissionChange ==
    /\ save.pc = "idle"
    /\ \E path \in Paths :
          \/ fs[path] # Denied /\ fs' = [fs EXCEPT ![path] = Denied]
          \/ /\ fs[path] = Denied
             /\ \E st \in FileStates : fs' = [fs EXCEPT ![path] = st]
    /\ call' = NoCall
    /\ UNCHANGED <<environ, cache_file, meta_file, save, meta_payload, hist, ld, dotenv, globals, pool>>

\* A source file is modified, created or removed (not in the instant between
\* the end of save_cache and the return of load_data, where no code runs).
SourceChange ==
    /\ save.pc = "idle"
    /\ ld.pc # "saving"
    /\ \E path \in Paths, st \in FileStates :
          /\ fs[path] # Denied
          /\ st # fs[path]
          /\ fs' = [fs EXCEPT ![path] = st]
    /\ call' = NoCall
    /\ UNCHANGED <<environ, cache_file, meta_file, save, meta_payload, hist, ld, dotenv, globals, pool>>

\* FORCE_RELOAD is set or unset.
SetEnviron ==
    /\ save.pc = "idle"
    /\ \E v \in EnvValues :
          /\ v # environ
          /\ environ' = v
    /\ call' = NoCall
    /\ UNCHANGED <<fs, cache_file, meta_file, save, meta_payload, hist, ld, dotenv, globals, pool>>

----------------------------------------------------------------------------

Init ==
    /\ environ \in EnvValues
    /\ fs \in [Paths -> FileStates]
    /\ cache_file = AbsentFile
    /\ meta_file = AbsentFile
    /\ save = SaveIdle
    /\ call = NoCall
    /\ meta_payload = NoPayload
    /\ hist = FALSE
    /\ ld = LdIdle
    /\ dotenv = EnvVars
    /\ globals = Imported
    /\ pool = PoolIdle

Next ==
    \/ SaveCacheCall
    \/ SaveStep
    \/ ClearCacheCall
    \/ save.pc = "idle" /\ ComputeMtimesCall
    \/ save.pc = "idle" /\ IsCacheValidCall
    \/ save.pc = "idle" /\ LoadCacheCall
    \/ SourceChange
    \/ SetEnviron

Spec == Init /\ [][Next]_vars

\* The same program where stat may also fail for lack of permission.
InitStat ==
    /\ environ \in EnvValues
    /\ fs \in [Paths -> FileStates \cup {Denied}]
    /\ cache_file = AbsentFile
    /\ meta_file = AbsentFile
    /\ save = SaveIdle
    /\ call = NoCall
    /\ meta_payload = NoPayload
    /\ hist = FALSE
    /\ ld = LdIdle
    /\ dotenv = EnvVars
    /\ globals = Imported
    /\ pool = PoolIdle

NextStat ==
    \/ Next
    \/ PermissionChange

SpecStat == InitStat /\ [][NextStat]_vars

\* The cache with its history kept, the override unset, the source files left
\* alone, and readers that may run at any point of a save_cache in progress.
InitHist ==
    /\ environ = ""
    /\ fs \in [Paths -> FileStates]
    /\ cache_file = AbsentFile
    /\ meta_file = AbsentFile
    /\ save = SaveIdle
    /\ call = NoCall
    /\ meta_payload = NoPayload
    /\ hist = TRUE
    /\ ld = LdIdle
    /\ dotenv = EnvVars
    /\ globals = Imported
    /\ pool = PoolIdle

NextHist ==
    \/ SaveCacheCall
    \/ SaveStep
    \/ ClearCacheCall
    \/ IsCacheValidCall
    \/ LoadCacheCall

SpecHist == InitHist /\ [][NextHist]_vars

\* Runs of load_data, one after the other, the override unset, with source
\* files changing at any point outside save_cache.
InitLoad ==
    /\ environ = ""
    /\ fs \in [Paths -> FileStates]
    /\ cache_file = AbsentFile
    /\ meta_file = AbsentFile
    /\ save = SaveIdle
    /\ call = NoCall
    /\ meta_payload = NoPayload
    /\ hist = FALSE
    /\ ld = LdIdle
    /\ dotenv = EnvVars
    /\ globals = Imported
    /\ pool = PoolIdle

NextLoad ==
    \/ LdStart
    \/ LdCheck
    \/ LdLoadCache
    \/ LdLoadCountries
    \/ LdLoadCountriesRaises
    \/ LdFilterAviation
    \/ LdAviationTask
    \/ LdAviationTaskRaises
    \/ LdAviationJoin
    \/ LdSave
    \/ SaveStep
    \/ LdSaveReturn
    \/ SourceChange

SpecLoad == InitLoad /\ [][NextLoad]_vars

\* The start of the program under every configuration of the environment:
\* the import of path.py, then calls that need the source map.
InitPaths ==
    /\ environ \in EnvValues
    /\ fs \in [Paths -> FileStates]
    /\ cache_file = AbsentFile
    /\ meta_file = AbsentFile
    /\ save = SaveIdle
    /\ call = NoCall
    /\ meta_payload = NoPayload
    /\ hist = FALSE
    /\ ld = LdIdle
    /\ dotenv \in SUBSET EnvVars
    /\ globals = NotImported
    /\ pool = PoolIdle

NextPaths ==
    \/ ImportPath
    \/ GatherSourcePathsCall
    \/ globals.import = "done" /\ ComputeMtimesCall
    \/ globals.import = "done" /\ SourceChange

SpecPaths == InitPaths /\ [][NextPaths]_vars

\* Calls of _load_excels_parallel on every data_dict, the worker tasks
\* finishing in any order, over every state of the files.
InitParallel ==
    /\ environ = ""
    /\ fs \in [ExcelPaths -> FileStates]
    /\ cache_file = AbsentFile
    /\ meta_file = AbsentFile
    /\ save = SaveIdle
    /\ call = NoCall
    /\ meta_payload = NoPayload
    /\ hist = FALSE
    /\ ld = LdIdle
    /\ dotenv = EnvVars
    /\ globals = Imported
    /\ pool = PoolIdle

NextParallel ==
    \/ ParCall
    \/ ParTaskDone
    \/ ParTaskRaises
    \/ ParCollect
    \/ ParCollectRaises
    \/ ParReturn

SpecParallel == InitParallel /\ [][NextParallel]_vars

----------------------------------------------------------------------------
\* Helpers of the properties

\* Whether the force-reload override is active, as is_cache_valid reads it.
OverrideActive == environ = "1"

\* Every fingerprint over the names of the model.
Fingerprints == UNION {[D -> Mtimes \cup {None}] : D \in SUBSET Names}

\* The items of the object stored in the fingerprint file, as written.
StoredItems ==
    {meta_file.data[i] : i \in 2..(Len(meta_file.data) - 1)}

StoredKeys == {item[1] : item \in StoredItems}

\* The items json.dump writes for a fingerprint.
ItemsOf(meta) ==
    {<<k, IF meta[k] = None THEN JsonNull ELSE meta[k]>> : k \in DOMAIN meta}

BothFilesWhole ==
    /\ cache_file.exists
    /\ meta_file.exists
    /\ CanJsonLoad(meta_file.data)

----------------------------------------------------------------------------
\* C1: with the override inactive, in the state a save_cache(B, S) returns
\* to without error, load_cache() returns B and
\* is_cache_valid(compute_mtimes(S)) is true.
C1_RoundTrip ==
    (call.op = "save_cache" /\ call.ok /\ ~OverrideActive) =>
        /\ ~load_cache.raised
        /\ load_cache.payload = call.payload
        /\ is_cache_valid(compute_mtimes(call.sources))

\* A save of a payload with data in both slots, over both sources, one of
\* them a missing file, has returned.
C1_Witness ==
    /\ call.op = "save_cache"
    /\ call.ok
    /\ ~OverrideActive
    /\ call.payload.countries_df # None
    /\ call.payload.aviation_data # EmptyDict
    /\ DOMAIN call.sources = Names
    /\ \E p \in Paths : fs[p] = Missing
    /\ \E p \in Paths : fs[p] # Missing

\* C2 as stated: whenever FORCE_RELOAD holds an affirmative value,
\* is_cache_valid returns false.
AffirmativeValues == {"1", "true"}

C2_AnyAffirmativeValue ==
    (call.op = "is_cache_valid" /\ environ \in AffirmativeValues) =>
        ~call.valid

\* C2, amended: whenever FORCE_RELOAD is exactly "1", is_cache_valid returns
\* false, also when both files exist and the stored fingerprint equals the
\* argument.
C2_ForceReload ==
    (call.op = "is_cache_valid" /\ environ = "1") => ~call.valid

\* is_cache_valid returned under FORCE_RELOAD=1 with both files whole and the
\* stored fingerprint equal to the argument.
C2_Witness ==
    /\ call.op = "is_cache_valid"
    /\ environ = "1"
    /\ BothFilesWhole
    /\ StoredItems = ItemsOf(call.meta)
    /\ DOMAIN call.meta = Names

\* C3: with the override inactive, is_cache_valid(F) is true exactly when
\* both files exist, the stored fingerprint decodes, and it has the keys of F
\* with the same time-or-None under each.
C3_ValidIffEqual ==
    (call.op = "is_cache_valid" /\ ~OverrideActive) =>
        (call.valid <=>
            /\ cache_file.exists
            /\ meta_file.exists
            /\ CanJsonLoad(meta_file.data)
            /\ StoredKeys = DOMAIN call.meta
            /\ StoredItems = ItemsOf(call.meta))

\* is_cache_valid returned false for a fingerprint that agrees with the
\* stored one on every shared key, the stored one having a key more or a key
\* less.
C3_Witness ==
    /\ call.op = "is_cache_valid"
    /\ ~OverrideActive
    /\ BothFilesWhole
    /\ ~call.valid
    /\ StoredKeys # DOMAIN call.meta
    /\ StoredKeys \cap DOMAIN call.meta # {}
    /\ \/ StoredItems \subseteq ItemsOf(call.meta)
       \/ ItemsOf(call.meta) \subseteq StoredItems

\* C4: when a save_cache(B, S) has returned without error and then one file
\* of S changes its modification time, appears or disappears,
\* is_cache_valid(compute_mtimes(S)) is false in the state after the change.
C4_ChangeInvalidates ==
    [][\A S \in SourceMaps :
          ( /\ call.op = "save_cache"
            /\ call.ok
            /\ call.sources = S
            /\ \E k \in DOMAIN S : fs'[S[k]] # fs[S[k]] )
          => ~(is_cache_valid(compute_mtimes(S)))']_vars

\* A check that returned false, the override inactive, on a whole cache whose
\* stored fingerprint has the keys of the current one and differs from it
\* under exactly one key.
C4_Witness ==
    /\ call.op = "is_cache_valid"
    /\ ~OverrideActive
    /\ ~call.valid
    /\ BothFilesWhole
    /\ StoredKeys = DOMAIN call.meta
    /\ Cardinality(ItemsOf(call.meta) \ StoredItems) = 1

\* The cache a save_cache call found was valid for some fingerprint and
\* loadable.
FoundValid(c) ==
    /\ c.pre_cache.exists
    /\ CanUnpickle(c.pre_cache.data)
    /\ c.pre_meta.exists
    /\ CanJsonLoad(c.pre_meta.data)

\* C5: a save_cache that raises leaves a cache that was valid as it found
\* it: both files keep their content, is_cache_valid(F) is still true and
\* load_cache() still returns the same payload.
C5_FailedSaveKeepsCache ==
    (call.op = "save_cache" /\ ~call.ok /\ FoundValid(call)) =>
        /\ cache_file = call.pre_cache
        /\ meta_file = call.pre_meta
        /\ is_cache_valid(JsonLoad(call.pre_meta.data))
        /\ ~load_cache.raised
        /\ load_cache.payload = Unpickle(call.pre_cache.data)

\* C6: a load_cache or is_cache_valid that runs while a save_cache is in
\* progress finds each file with the whole content it had before the save
\* or the whole content the save writes.
C6_AtomicWrites ==
    (save.pc # "idle" /\ call.op \in {"load_cache", "is_cache_valid"}) =>
        /\ cache_file \in {save.pre_cache, FileWith(Pickle(save.payload))}
        /\ meta_file \in
              {save.pre_meta,
               FileWith(JsonDump(compute_mtimes(save.sources)))}

\* C7: between operations, whenever is_cache_valid returns true both files
\* exist and load_cache() returns the payload of the save_cache that wrote
\* the stored fingerprint.
C7_NoPartiallyValid ==
    (save.pc = "idle" /\ call.op = "is_cache_valid" /\ call.valid) =>
        /\ cache_file.exists
        /\ meta_file.exists
        /\ ~load_cache.raised
        /\ load_cache.payload = meta_payload

\* C8: load_cache() raises on a bundle file that is truncated; a load_data
\* run in which load_cache raised does not end with that exception: it
\* goes on to the sources, and when no collaborator raises it has entered
\* every loading section, holds what it read there, and has called
\* save_cache before it returns.
C8_CorruptCacheIsMiss ==
    /\ (cache_file.exists /\ ~CanUnpickle(cache_file.data)) =>
           load_cache.raised
    /\ ld.failed_load =>
           /\ ld.outcome # "CacheCorrupt"
           /\ "cache" \notin ld.trace
           /\ ld.pc \in {"load_countries", "filter_aviation",
                         "load_aviation", "build", "saving", "done"}
           /\ (ld.pc = "done" /\ ld.outcome = "returned") =>
                  ld.trace = {"countries", "aviation", "save"}

\* A run found the stored fingerprint current and the bundle file
\* truncated, reloaded from the sources, saved without error and returned.
C8_Witness ==
    /\ ld.failed_load
    /\ ld.pc = "done"
    /\ ld.outcome = "returned"
    /\ ld.countries_df # None
    /\ ld.aviation_data # EmptyDict
    /\ call.op = "save_cache"
    /\ call.ok
    /\ ~load_cache.raised
    /\ load_cache.payload = MkPayload(ld.countries_df, ld.aviation_data)

\* C9: clear_cache returns without error from any cache state and leaves
\* neither file; after it is_cache_valid(F) is false for every F; a second
\* call right after changes nothing.
C9_ClearIdempotent ==
    /\ [](call.op = "clear_cache" =>
             /\ call.ok
             /\ ~cache_file.exists
             /\ ~meta_file.exists
             /\ \A F \in Fingerprints : ~is_cache_valid(F))
    /\ [][(call.op = "clear_cache" /\ call'.op = "clear_cache") =>
             /\ call'.ok
             /\ cache_file' = cache_file
             /\ meta_file' = meta_file]_vars

\* clear_cache has returned from a state where only the bundle file existed.
C9_Witness ==
    /\ call.op = "clear_cache"
    /\ call.pre_cache.exists
    /\ ~call.pre_meta.exists

\* C10: compute_mtimes does not raise; its result has the keys of S, the
\* modification time under a key whose file stat can read and None under a
\* key whose stat fails (missing file, permission error); a second call on
\* the same S right after returns the same fingerprint.
C10_ComputeMtimes ==
    /\ [](call.op = "compute_mtimes" =>
             /\ call.ok
             /\ DOMAIN call.meta = DOMAIN call.sources
             /\ \A k \in DOMAIN call.sources :
                   LET f == fs[call.sources[k]]
                   IN /\ f.st = "file" => call.meta[k] = f.mtime
                      /\ f.st \in {"missing", "denied"} =>
                            call.meta[k] = None)
    /\ [][( /\ call.op = "compute_mtimes"
            /\ call'.op = "compute_mtimes"
            /\ call'.sources = call.sources ) =>
             call'.meta = call.meta]_vars

\* compute_mtimes has returned for a map with a missing file and a file stat
\* may not read.
C10_Witness ==
    /\ call.op = "compute_mtimes"
    /\ DOMAIN call.sources = Names
    /\ \E p \in Paths : fs[p] = Missing
    /\ \E p \in Paths : fs[p] = Denied

\* C11: a step in which is_cache_valid returns, true or false, leaves the
\* bundle file and the fingerprint file as they were, so load_cache() returns
\* after it what it returned before it; after a check that returns false
\* right after a save_cache(B, S) returned, load_cache() still returns B.
C11_NoSideEffects ==
    [][call'.op = "is_cache_valid" =>
          /\ cache_file' = cache_file
          /\ meta_file' = meta_file
          /\ load_cache' = load_cache
          /\ (call.op = "save_cache" /\ call.ok /\ ~call'.valid) =>
                 /\ ~load_cache'.raised
                 /\ load_cache'.payload = call.payload]_vars

\* is_cache_valid has returned false, the override inactive, on a cache whose
\* two files are whole, and the bundle with its datasets is still loadable.
C11_Witness ==
    /\ call.op = "is_cache_valid"
    /\ ~call.valid
    /\ ~OverrideActive
    /\ BothFilesWhole
    /\ ~load_cache.raised
    /\ load_cache.payload.countries_df # None
    /\ load_cache.payload.aviation_data # EmptyDict

\* C12: a load_data run whose save_cache raised returns normally; each
\* loading step stores the dataset it reads from the source file (None or no
\* entry when the file is not there), and from the building of the payload to
\* the return, whether save_cache returns or raises, the loader's datasets
\* stay as loaded.
C12_SaveFailureNotFatal ==
    /\ []((ld.pc = "done" /\ call.op = "save_cache" /\ ~call.ok) =>
             /\ "save" \in ld.trace
             /\ ld.outcome = "returned")
    /\ [][/\ (ld.pc = "load_countries" /\ ld'.pc = "filter_aviation") =>
              ld'.countries_df =
                  IF path_exists(gather_source_paths["countries"])
                  THEN read_dataset(gather_source_paths["countries"])
                  ELSE None
          /\ (ld.pc = "load_aviation" /\ ld'.pc = "load_aviation") =>
              \A k \in DOMAIN ld'.results :
                  ld'.results[k] = IF k \in DOMAIN ld.results
                                   THEN ld.results[k]
                                   ELSE read_dataset(gather_source_paths[k])
          /\ (ld.pc = "load_aviation" /\ ld'.pc = "build") =>
              ld'.aviation_data = ld.results
          /\ (ld.pc \in {"build", "saving"}) =>
              /\ ld'.countries_df = ld.countries_df
              /\ ld'.aviation_data = ld.aviation_data]_vars

\* A run loaded both datasets from the sources, its save_cache raised, and
\* it has returned with the datasets in the loader.
C12_Witness ==
    /\ ld.pc = "done"
    /\ ld.outcome = "returned"
    /\ "save" \in ld.trace
    /\ call.op = "save_cache"
    /\ ~call.ok
    /\ ld.countries_df # None
    /\ ld.aviation_data # EmptyDict

\* The names whose configuration the environment defines.
Configured == {n \in Names : EnvVarOf(n) \in dotenv}

\* C13: under every configuration the program gets to call
\* gather_source_paths without an error; the map it returns has an entry for
\* a name exactly when the configuration of that name is defined, the entry
\* being its path, and a second call right after returns the same map.
C13_GatherSourcePaths ==
    /\ globals.import # "TypeError"
    /\ call.op = "gather_source_paths" =>
           /\ call.ok
           /\ DOMAIN call.sources = Configured
           /\ \A n \in DOMAIN call.sources : call.sources[n] = PathOf(n)
           /\ call.sources = gather_source_paths

\* The exceptions a collaborator (pd.read_csv, pd.read_excel) raises.
CollaboratorErrors == {"ParseError", "SourceUnavailable"}

\* C14: once a collaborator has raised while load_data loads a dataset, the
\* run has ended with that exception and has not called save_cache; and no
\* step of a run that has not called save_cache changes either cache file.
C14_CollaboratorFailurePropagates ==
    /\ [](ld.outcome \in CollaboratorErrors =>
             /\ ld.pc = "done"
             /\ "save" \notin ld.trace
             /\ save.pc = "idle")
    /\ []["save" \notin ld'.trace =>
             /\ cache_file' = cache_file
             /\ meta_file' = meta_file]_vars

\* A run ended with a collaborator's exception while the cache an earlier
\* run saved is still whole on disk.
C14_Witness ==
    /\ ld.pc = "done"
    /\ ld.outcome \in CollaboratorErrors
    /\ BothFilesWhole
    /\ ~load_cache.raised
    /\ load_cache.payload.aviation_data # EmptyDict

\* C15: when _load_excels_parallel returns, whatever the order in which its
\* tasks finished and their futures were taken, the map has one entry per
\* key of data_dict, holding the dataset read from the path of that key.
C15_OrderIndependent ==
    pool.pc = "returned" =>
        /\ DOMAIN pool.results = DOMAIN pool.data_dict
        /\ \A k \in DOMAIN pool.data_dict :
               pool.results[k] = read_dataset(pool.data_dict[k])

\* A call over three files, not all with the same content, has returned
\* after its tasks finished in the reverse of the order of submission.
C15_Witness ==
    /\ pool.pc = "returned"
    /\ DOMAIN pool.data_dict = ExcelKeys
    /\ pool.order = <<"aviation_2012", "aviation_2011", "aviation_2010">>
    /\ \E p, q \in ExcelPaths : fs[p].mtime # fs[q].mtime

\* The bundle whose datasets were read from the files a fingerprint
\* describes: under each name the version with the recorded modification
\* time, nothing for a file recorded as absent.
BundleOf(meta) ==
    MkPayload(meta["countries"],
              [k \in {n \in AviationNames : meta[n] # None} |-> meta[k]])

\* C16: between operations, whenever is_cache_valid(compute_mtimes(S)) is
\* true for the source map S of load_data and the bundle loads, the stored
\* bundle holds, for every source file, the dataset read from the version of
\* the file that the current fingerprint records.
C16_CacheFreshness ==
    ( /\ save.pc = "idle"
      /\ is_cache_valid(compute_mtimes(gather_source_paths))
      /\ ~load_cache.raised )
    => load_cache.payload = BundleOf(compute_mtimes(gather_source_paths))

\* C17: a load_data run that starts right after a run that loaded from the
\* sources and saved without error, no source file changed in between and
\* the override inactive, goes through the validity check and load_cache
\* only; when it has returned it has entered no loading section and called
\* no save_cache, and the loader holds the datasets of the first run; no
\* step of it changes either cache file.
C17_SecondRunHits ==
    /\ [](ld.rerun =>
             /\ ld.pc \in {"check", "load_cache", "done"}
             /\ ld.pc = "check" => is_cache_valid(ld.current_meta)
             /\ ld.pc = "done" =>
                    /\ ld.outcome = "returned"
                    /\ ld.trace = {"cache"}
                    /\ MkPayload(ld.countries_df, ld.aviation_data) = ld.first)
    /\ [][ld'.rerun =>
             /\ cache_file' = cache_file
             /\ meta_file' = meta_file]_vars

\* The second run has returned with both datasets of the first run.
C17_Witness ==
    /\ ld.rerun
    /\ ld.pc = "done"
    /\ ld.trace = {"cache"}
    /\ ld.countries_df # None
    /\ ld.aviation_data # EmptyDict

====
